---- MODULE Spec2Model ----
(***************************************************************************)
(* Model of flask_webpackext/project.py: the pnpm adapter (PNPMPackage),   *)
(* the path/config resolver (_PathStorageMixin) and the bundle project     *)
(* wrapper (WebpackBundleProject).                                         *)
(*                                                                         *)
(* Python strings whose characters the code inspects or extends (paths,    *)
(* URLs) are sequences of one-character strings; strings the code only     *)
(* compares or concatenates (commands, script names, config choices) are   *)
(* TLA+ strings.  The host configuration mapping is a function whose       *)
(* DOMAIN is the set of keys present, so a lookup of a key outside the     *)
(* DOMAIN is Python's KeyError.                                            *)
(***************************************************************************)
EXTENDS Integers, Sequences, FiniteSets, TLC

VARIABLES
    config,           \* app.config: present keys -> values
    instance_path,    \* app.instance_path
    static_folder,    \* app.static_folder
    static_url_path,  \* app.static_url_path
    debug,            \* app.debug
    ret,              \* outcome of the last call
    npmpkg_cache,     \* the project instance's memoized npmpkg (_npmpkg)
    n_clients,        \* package-manager clients the instance has created
    npm_call,         \* last _run_npm call: the client's class, the call
                      \* given and the call handed to NPMPackage._run_npm
    run_calls,        \* calls handed to the base run() by the last run()
    self_app,         \* self_app[w]: the app of bundle project w, once built
    bundle_app,       \* bundle_app[i]: the app attribute of bundle descriptor i
    entry_cache,      \* entry_cache[w]: project w's memoized entry (_entry)
    init_call         \* arguments last handed to the base __init__

appVars    == <<config, instance_path, static_folder, static_url_path, debug>>
npmVars    == <<npmpkg_cache, n_clients, npm_call>>
bundleVars == <<self_app, bundle_app, entry_cache, init_call>>
vars == <<config, instance_path, static_folder, static_url_path, debug, ret,
          npmpkg_cache, n_clients, npm_call, run_calls, self_app, bundle_app,
          entry_cache, init_call>>

----------------------------------------------------------------------------
(* Bounds *)

MaxUrlLen  == 2   \* longest URL (dist URL, static URL path) drawn
MaxArgs    == 2   \* longest caller-supplied argument list
MaxClients == 2   \* cap on package-manager clients one instance creates
MaxBundles == 2   \* most bundle descriptors of a bundle project

----------------------------------------------------------------------------
(* Python values *)

None == "None"

\* None where the other values are records
NoneObj == [cls |-> "NoneType"]

Ok(v)    == [ok |-> TRUE, val |-> v]
Raise(e) == [ok |-> FALSE, exc |-> e]

PyStr(s) == [type |-> "str", val |-> s]
PyObj(o) == [type |-> "object", val |-> o]

SeqsUpTo(S, n) == UNION {[1..k -> S] : k \in 0..n}

\* str.endswith(suffix) for a one-character suffix
endswith(s, c) == Len(s) > 0 /\ s[Len(s)] = c

\* str.startswith(prefix) for a one-character prefix
startswith(s, c) == Len(s) > 0 /\ s[1] = c

\* posixpath.join(a, b)
join(a, b) ==
    IF startswith(b, "/") THEN b
    ELSE IF Len(a) = 0 \/ endswith(a, "/") THEN a \o b
    ELSE a \o <<"/">> \o b

assets == <<"a", "s", "s", "e", "t", "s">>
dist   == <<"d", "i", "s", "t">>

----------------------------------------------------------------------------
(* Inputs *)

BUILDDIR  == "WEBPACKEXT_PROJECT_BUILDDIR"
DISTDIR   == "WEBPACKEXT_PROJECT_DISTDIR"
DISTURL   == "WEBPACKEXT_PROJECT_DISTURL"
PROJECT   == "WEBPACKEXT_PROJECT"
STORAGE   == "WEBPACKEXT_STORAGE_CLS"
PKGMGR    == "JAVASCRIPT_PACKAGES_MANAGER"
BUILDER   == "ASSETS_BUILDER"

Paths    == {<<"/", "v">>, <<"/", "w", "/">>}
UrlChars == {"/", "a"}
Urls     == SeqsUpTo(UrlChars, MaxUrlLen)

\* importable dotted names and what sys.modules holds for them
Names   == {"pkg.a", "pkg.b", "pkg.missing"}
Objects == {"A", "B"}
Refs    == {PyStr(n) : n \in Names} \cup {PyObj(o) : o \in Objects}

\* the values a key may be set to
Values(k) ==
    CASE k \in {BUILDDIR, DISTDIR} -> Paths
      [] k = DISTURL               -> Urls
      [] k \in {PROJECT, STORAGE}  -> Refs
      [] k = PKGMGR                -> {"npm", "pnpm"}
      [] k = BUILDER               -> {"webpack", "rspack", "vite"}

\* every configuration over the keys in the sequence ks
RECURSIVE Configs(_)
Configs(ks) ==
    IF ks = <<>> THEN {<<>>}
    ELSE LET C == Configs(Tail(ks))
         IN  C \cup {(Head(ks) :> v) @@ c : c \in C, v \in Values(Head(ks))}

\* dict.get(k, default)
get(k, default) == IF k \in DOMAIN config THEN config[k] ELSE default

ConfigSet(k, v) ==
    config' = [x \in DOMAIN config \cup {k} |-> IF x = k THEN v ELSE config[x]]

ConfigDel(k) ==
    /\ k \in DOMAIN config
    /\ config' = [x \in DOMAIN config \ {k} |-> config[x]]

----------------------------------------------------------------------------
(* _PathStorageMixin: path and reference accessors *)

\* werkzeug.utils.import_string(name)
sys_modules == [n \in Names |->
    CASE n = "pkg.a" -> "A" [] n = "pkg.b" -> "B" [] OTHER -> None]

import_string(name) ==
    IF sys_modules[name] = None THEN Raise("ImportError")
    ELSE Ok(PyObj(sys_modules[name]))

path ==
    IF BUILDDIR \in DOMAIN config THEN config[BUILDDIR]
    ELSE join(instance_path, assets)

\* dist_dir with the fallback of path
dist_dir_as_path ==
    IF DISTDIR \in DOMAIN config THEN config[DISTDIR]
    ELSE join(instance_path, assets)

dist_dir ==
    IF DISTDIR \in DOMAIN config THEN config[DISTDIR]
    ELSE join(static_folder, dist)

\* project and storage_cls under the configuration cfg: the outcome, and the
\* names import_string was called with on the way
\* project without the isinstance test: the value is passed through
project_passthrough(cfg) ==
    IF PROJECT \notin DOMAIN cfg
    THEN [out |-> Raise("KeyError"), looked |-> <<>>]
    ELSE [out |-> Ok(cfg[PROJECT]), looked |-> <<>>]

project(cfg) ==
    IF PROJECT \notin DOMAIN cfg
    THEN [out |-> Raise("KeyError"), looked |-> <<>>]
    ELSE IF cfg[PROJECT].type = "str"
    THEN [out |-> import_string(cfg[PROJECT].val),
          looked |-> <<cfg[PROJECT].val>>]
    ELSE [out |-> Ok(cfg[PROJECT]), looked |-> <<>>]

storage_cls(cfg) ==
    IF STORAGE \notin DOMAIN cfg
    THEN [out |-> Raise("KeyError"), looked |-> <<>>]
    ELSE IF cfg[STORAGE].type = "str"
    THEN [out |-> import_string(cfg[STORAGE].val),
          looked |-> <<cfg[STORAGE].val>>]
    ELSE [out |-> Ok(cfg[STORAGE]), looked |-> <<>>]

\* the separator appended without the endswith test
add_slash_always(url) == url \o <<"/">>

\* if not url.endswith("/"): url += "/"
add_slash(url) == IF ~endswith(url, "/") THEN url \o <<"/">> ELSE url

flask_config ==
    IF DISTURL \notin DOMAIN config THEN Raise("KeyError")
    ELSE IF ~project(config).out.ok THEN project(config).out
    ELSE IF DISTDIR \notin DOMAIN config THEN Raise("KeyError")
    ELSE Ok([build |-> [
            debug      |-> debug,
            context    |-> path,
            assetsPath |-> config[DISTDIR],
            assetsURL  |-> add_slash(config[DISTURL]),
            staticPath |-> static_folder,
            staticURL  |-> add_slash(static_url_path)]])

RECURSIVE Dedup(_)
Dedup(q) ==
    IF q = <<>> THEN <<>>
    ELSE LET r == Dedup(SubSeq(q, 1, Len(q) - 1))
         IN  IF \E i \in 1..Len(r) : r[i] = q[Len(q)] THEN r
             ELSE Append(r, q[Len(q)])

\* the allowed copy paths with repeated paths merged
flask_allowed_copy_paths_dedup ==
    Dedup(<<instance_path, path, static_folder, dist_dir>>)

flask_allowed_copy_paths ==
    <<instance_path, path, static_folder, dist_dir>>

----------------------------------------------------------------------------
(* Calls of the resolver's accessors; each leaves the application alone *)

NoCall == [op |-> "none"]

GetPath ==
    /\ ret' = [op |-> "path", out |-> Ok(path)]
    /\ UNCHANGED <<appVars, npmVars, run_calls, bundleVars>>

GetDistDir ==
    /\ ret' = [op |-> "dist_dir", out |-> Ok(dist_dir)]
    /\ UNCHANGED <<appVars, npmVars, run_calls, bundleVars>>

GetProject ==
    /\ ret' = [op |-> "project", out |-> project(config).out,
               looked |-> project(config).looked]
    /\ UNCHANGED <<appVars, npmVars, run_calls, bundleVars>>

GetStorageCls ==
    /\ ret' = [op |-> "storage_cls", out |-> storage_cls(config).out,
               looked |-> storage_cls(config).looked]
    /\ UNCHANGED <<appVars, npmVars, run_calls, bundleVars>>

CallFlaskConfig ==
    /\ ret' = [op |-> "flask_config", out |-> flask_config]
    /\ UNCHANGED <<appVars, npmVars, run_calls, bundleVars>>

CallFlaskAllowedCopyPaths ==
    /\ ret' = [op |-> "flask_allowed_copy_paths",
               out |-> Ok(flask_allowed_copy_paths)]
    /\ UNCHANGED <<appVars, npmVars, run_calls, bundleVars>>

\* the host application changes one configuration key
SetKey(K) ==
    /\ \E k \in K : \E v \in Values(k) : ConfigSet(k, v)
    /\ UNCHANGED <<instance_path, static_folder, static_url_path, debug, ret,
                   npmVars, run_calls, bundleVars>>

DelKey(K) ==
    /\ \E k \in K : ConfigDel(k)
    /\ UNCHANGED <<instance_path, static_folder, static_url_path, debug, ret,
                   npmVars, run_calls, bundleVars>>

\* the parts of the state a specification does not exercise
IdleNpm ==
    /\ npmpkg_cache = NoneObj
    /\ n_clients = 0
    /\ npm_call = NoCall

Projects == {1, 2}

IdleBundle ==
    /\ self_app = [w \in Projects |-> None]
    /\ bundle_app = <<>>
    /\ entry_cache = [w \in Projects |-> NoneObj]
    /\ init_call = NoCall

----------------------------------------------------------------------------
(* Specification of the directory accessors: path, dist_dir and the        *)
(* allowed copy paths, under a configuration the host keeps changing       *)

DirKeys   == <<BUILDDIR, DISTDIR>>
DirKeySet == {BUILDDIR, DISTDIR}

InitDirs ==
    /\ config \in Configs(DirKeys)
    /\ instance_path \in Paths
    /\ static_folder \in Paths
    /\ static_url_path = <<"/", "a">>
    /\ debug = FALSE
    /\ ret = NoCall
    /\ run_calls = <<>>
    /\ IdleNpm
    /\ IdleBundle

SetDirKey == SetKey(DirKeySet)
DelDirKey == DelKey(DirKeySet)

NextDirs ==
    \/ GetPath
    \/ GetDistDir
    \/ CallFlaskAllowedCopyPaths
    \/ SetDirKey
    \/ DelDirKey

SpecDirs == InitDirs /\ [][NextDirs]_vars

\* C7: every access of dist_dir returns, from the configuration as it is at
\* that access, the dist-directory override when it is present and the static
\* folder joined with "dist" when it is absent; it never raises and leaves
\* the configuration as it was.
C7_DistDir ==
    [][GetDistDir =>
        /\ ret'.out.ok
        /\ DISTDIR \in DOMAIN config => ret'.out.val = config[DISTDIR]
        /\ DISTDIR \notin DOMAIN config =>
               ret'.out.val = join(static_folder, dist)
        /\ config' = config]_vars

\* C7 witness: an access without the override returned the fallback, here for
\* a static folder that already ends with the separator.
C7_Witness ==
    /\ ret.op = "dist_dir"
    /\ DISTDIR \notin DOMAIN config
    /\ endswith(static_folder, "/")
    /\ ret.out = Ok(static_folder \o dist)

\* C4: flask_allowed_copy_paths returns exactly four paths, in the order
\* instance path, build path, static folder, dist directory, the build path
\* and dist directory with their fallbacks, and keeps equal paths apart.
C4_AllowedCopyPaths ==
    [][CallFlaskAllowedCopyPaths =>
        LET r == ret'.out.val IN
        /\ ret'.out.ok
        /\ Len(r) = 4
        /\ r[1] = instance_path
        /\ r[2] = IF BUILDDIR \in DOMAIN config THEN config[BUILDDIR]
                  ELSE join(instance_path, assets)
        /\ r[3] = static_folder
        /\ r[4] = IF DISTDIR \in DOMAIN config THEN config[DISTDIR]
                  ELSE join(static_folder, dist)]_vars

\* C4 witness: a returned list of four in which the build path repeats the
\* instance path and the dist directory is the fallback.
C4_Witness ==
    /\ ret.op = "flask_allowed_copy_paths"
    /\ Len(ret.out.val) = 4
    /\ ret.out.val[1] = ret.out.val[2]
    /\ DISTDIR \notin DOMAIN config
    /\ ret.out.val[4] = join(static_folder, dist)

----------------------------------------------------------------------------
(* Specification of flask_config: a function of the application's state,   *)
(* applied to every configuration over the keys it reads                   *)

BuildKeys == <<BUILDDIR, DISTDIR, DISTURL, PROJECT>>

InitBuild ==
    /\ config \in Configs(BuildKeys)
    /\ instance_path \in Paths
    /\ static_folder \in Paths
    /\ static_url_path \in Urls
    /\ debug \in BOOLEAN
    /\ ret = NoCall
    /\ run_calls = <<>>
    /\ IdleNpm
    /\ IdleBundle

NextBuild == CallFlaskConfig

SpecBuild == InitBuild /\ [][NextBuild]_vars

\* the dictionary flask_config returned
Built == ret.out.val.build

Returned == ret.op = "flask_config" /\ ret.out.ok

\* C5: in every dictionary flask_config returns, assetsURL and staticURL end
\* with "/": a URL that ended with "/" is returned as it was, any other gets
\* exactly one "/" appended, and normalising the result again changes nothing.
C5_TrailingSlash ==
    Returned =>
        /\ endswith(Built.assetsURL, "/")
        /\ endswith(Built.staticURL, "/")
        /\ Built.assetsURL = IF endswith(config[DISTURL], "/")
                             THEN config[DISTURL]
                             ELSE config[DISTURL] \o <<"/">>
        /\ Built.staticURL = IF endswith(static_url_path, "/")
                             THEN static_url_path
                             ELSE static_url_path \o <<"/">>
        /\ add_slash(Built.assetsURL) = Built.assetsURL
        /\ add_slash(Built.staticURL) = Built.staticURL

\* C5 witness: a dictionary built from a dist URL without the trailing
\* separator and a static URL path that already has it.
C5_Witness ==
    /\ Returned
    /\ config[DISTURL] = <<"/", "a">>
    /\ static_url_path = <<"a", "/">>
    /\ Built.assetsURL = <<"/", "a", "/">>
    /\ Built.staticURL = <<"a", "/">>

\* C6: given a resolvable project reference, flask_config fails exactly when
\* the dist URL is absent, and with the dist URL present and the
\* dist-directory override absent it returns the dictionary with assetsPath
\* the static folder joined with "dist".
C6_OnlyDistUrlRequired ==
    (ret.op = "flask_config" /\ project(config).out.ok) =>
        /\ ~ret.out.ok <=> DISTURL \notin DOMAIN config
        /\ (DISTURL \in DOMAIN config /\ DISTDIR \notin DOMAIN config) =>
               /\ ret.out.ok
               /\ Built.assetsPath = join(static_folder, dist)

----------------------------------------------------------------------------
(* Specification of the reference accessors: project and storage_cls       *)

RefKeys   == <<PROJECT, STORAGE>>
RefKeySet == {PROJECT, STORAGE}

InitRefs ==
    /\ config \in Configs(RefKeys)
    /\ instance_path = <<"/", "v">>
    /\ static_folder = <<"/", "w", "/">>
    /\ static_url_path = <<"/", "a">>
    /\ debug = FALSE
    /\ ret = NoCall
    /\ run_calls = <<>>
    /\ IdleNpm
    /\ IdleBundle

SetRefKey == SetKey(RefKeySet)
DelRefKey == DelKey(RefKeySet)

NextRefs ==
    \/ GetProject
    \/ GetStorageCls
    \/ SetRefKey
    \/ DelRefKey

SpecRefs == InitRefs /\ [][NextRefs]_vars

\* what a reference accessor must make of the value v of its key
Resolved(v, r) ==
    /\ v.type = "object" => r.out = Ok(v) /\ r.looked = <<>>
    /\ (v.type = "str" /\ sys_modules[v.val] # None) =>
           /\ r.out = Ok(PyObj(sys_modules[v.val]))
           /\ r.looked = <<v.val>>
    /\ (v.type = "str" /\ sys_modules[v.val] = None) =>
           /\ r.out = import_string(v.val)
           /\ ~r.out.ok
           /\ r.looked = <<v.val>>

\* C8: project and storage_cls resolve a dotted-name string by one late
\* lookup to the object the accessor returns when that object is configured
\* directly, pass a non-string value through without any lookup, and hand a
\* failed lookup's failure to the caller.
C8_DualForm ==
    [][/\ (GetProject /\ PROJECT \in DOMAIN config) =>
            /\ Resolved(config[PROJECT], ret')
            /\ ret'.out.ok =>
                   ret'.out = project((PROJECT :> ret'.out.val) @@ config).out
       /\ (GetStorageCls /\ STORAGE \in DOMAIN config) =>
            /\ Resolved(config[STORAGE], ret')
            /\ ret'.out.ok =>
                   ret'.out =
                       storage_cls((STORAGE :> ret'.out.val) @@ config).out]_vars

\* C8 witness: project, configured by name, returned the named object after
\* one lookup.
C8_Witness ==
    /\ ret.op = "project"
    /\ PROJECT \in DOMAIN config
    /\ config[PROJECT] = PyStr("pkg.a")
    /\ ret.looked = <<"pkg.a">>
    /\ ret.out = Ok(PyObj("A"))

----------------------------------------------------------------------------
(* The package-manager client: PNPMPackage and the memoized npmpkg *)

Commands == {"install", "run-script"}
Args     == {"a", "b"}
ArgLists == SeqsUpTo(Args, MaxArgs)
\* keyword options, as sets of <<name, value>> pairs
Kwargs   == {{}, {<<"wait", FALSE>>}}

\* the flag appended to the caller's arguments instead of replacing them
PNPMPackage_run_npm_append(command, args, kwargs) ==
    [command |-> command,
     args    |-> IF command = "install"
                 THEN args \o <<"--shamefully-hoist">> ELSE args,
     kwargs  |-> kwargs]

\* PNPMPackage._run_npm: the call it hands to NPMPackage._run_npm
PNPMPackage_run_npm(command, args, kwargs) ==
    [command |-> command,
     args    |-> IF command = "install" THEN <<"--shamefully-hoist">> ELSE args,
     kwargs  |-> kwargs]

\* client._run_npm(command, *args, **kwargs) by the client's class
run_npm(client, command, args, kwargs) ==
    IF client.cls = "PNPMPackage"
    THEN PNPMPackage_run_npm(command, args, kwargs)
    ELSE [command |-> command, args |-> args, kwargs |-> kwargs]

\* PNPMPackage(filepath) and NPMPackage(filepath); serial tells apart the
\* clients one project instance creates
NewClient(cls) == [cls |-> cls, filepath |-> path, serial |-> n_clients + 1]

\* npmpkg without the memoization: a client per access
npmpkg_uncached ==
    [client  |-> IF get(PKGMGR, "npm") = "pnpm"
                 THEN NewClient("PNPMPackage") ELSE NewClient("NPMPackage"),
     created |-> TRUE]

\* the npmpkg property: the client it returns and whether it was created now
npmpkg ==
    IF npmpkg_cache # NoneObj THEN [client |-> npmpkg_cache, created |-> FALSE]
    ELSE [client  |-> IF get(PKGMGR, "npm") = "pnpm"
                      THEN NewClient("PNPMPackage")
                      ELSE NewClient("NPMPackage"),
          created |-> TRUE]

\* the effect of reading the property on the instance
ReadNpmpkg ==
    /\ npmpkg.created => n_clients < MaxClients
    /\ npmpkg_cache' = npmpkg.client
    /\ n_clients' = IF npmpkg.created THEN n_clients + 1 ELSE n_clients

GetNpmpkg ==
    /\ ReadNpmpkg
    /\ ret' = [op |-> "npmpkg", out |-> Ok(npmpkg.client)]
    /\ UNCHANGED <<appVars, npm_call, run_calls, bundleVars>>

\* self.npmpkg._run_npm(command, *args, **kwargs)
NpmCommand(command, args, kwargs) ==
    /\ ReadNpmpkg
    /\ npm_call' = [cls    |-> npmpkg.client.cls,
                    given  |-> [command |-> command, args |-> args,
                                kwargs |-> kwargs],
                    passed |-> run_npm(npmpkg.client, command, args, kwargs)]
    /\ UNCHANGED <<appVars, ret, run_calls, bundleVars>>

NpmCommandStep ==
    \E command \in Commands : \E args \in ArgLists : \E kwargs \in Kwargs :
        NpmCommand(command, args, kwargs)

\* the step is a command run for the call npm_call' records
IsNpmCommand ==
    /\ npm_call' # NoCall
    /\ NpmCommand(npm_call'.given.command, npm_call'.given.args,
                  npm_call'.given.kwargs)

\* a project instance constructed anew takes the place of the old one
NewInstance ==
    /\ npmpkg_cache' = NoneObj
    /\ n_clients' = 0
    /\ UNCHANGED <<appVars, ret, npm_call, run_calls, bundleVars>>

NpmKeySet == {PKGMGR, BUILDDIR}

InitNpm ==
    /\ config \in Configs(<<PKGMGR, BUILDDIR>>)
    /\ instance_path = <<"/", "v">>
    /\ static_folder = <<"/", "w", "/">>
    /\ static_url_path = <<"/", "a">>
    /\ debug = FALSE
    /\ ret = NoCall
    /\ run_calls = <<>>
    /\ IdleNpm
    /\ IdleBundle

SetNpmKey == SetKey(NpmKeySet)
DelNpmKey == DelKey(NpmKeySet)

NextNpm ==
    \/ GetNpmpkg
    \/ NpmCommandStep
    \/ NewInstance
    \/ SetNpmKey
    \/ DelNpmKey

SpecNpm == InitNpm /\ [][NextNpm]_vars

\* the call the pnpm adapter must hand on for the call it was given
Rewritten(c) ==
    /\ c.passed.command = c.given.command
    /\ c.passed.kwargs = c.given.kwargs
    /\ c.given.command = "install" => c.passed.args = <<"--shamefully-hoist">>
    /\ c.given.command # "install" => c.passed.args = c.given.args

\* C1 as stated: whenever the package-manager choice is "pnpm", a command run
\* on the client npmpkg returns gets ["--shamefully-hoist"] for "install" and
\* the caller's arguments and keyword options for any other command.
C1_AsStated ==
    [][(IsNpmCommand /\ get(PKGMGR, "npm") = "pnpm") =>
        Rewritten(npm_call')]_vars

\* C1 amended: the choice that counts is the one in force when the instance
\* creates its client.  A client created under the choice "pnpm" is the pnpm
\* adapter, and every command run on a pnpm adapter gets
\* ["--shamefully-hoist"] for "install", whatever the caller supplied, and the
\* caller's arguments and keyword options unchanged for any other command.
C1_PnpmInstall ==
    [][IsNpmCommand =>
        /\ (npmpkg_cache = NoneObj /\ get(PKGMGR, "npm") = "pnpm") =>
               npm_call'.cls = "PNPMPackage"
        /\ npm_call'.cls = "PNPMPackage" => Rewritten(npm_call')]_vars

\* C1 witness: install was run on a pnpm adapter with two caller arguments
\* and a keyword option, and the flag alone was handed on.
C1_Witness ==
    /\ npm_call # NoCall
    /\ npm_call.cls = "PNPMPackage"
    /\ npm_call.given = [command |-> "install", args |-> <<"a", "b">>,
                         kwargs |-> {<<"wait", FALSE>>}]
    /\ npm_call.passed = [command |-> "install",
                          args |-> <<"--shamefully-hoist">>,
                          kwargs |-> {<<"wait", FALSE>>}]

\* C9: an instance creates its client at most once: once the client exists,
\* whatever the configuration becomes, every access returns that same client
\* (same variant, same working directory), and only the first access of a
\* newly constructed instance reads the configuration as it then is.
C9_Memoized ==
    [][/\ n_clients' <= 1
       /\ (npmpkg_cache # NoneObj /\ npmpkg_cache' # NoneObj) =>
              npmpkg_cache' = npmpkg_cache
       /\ (npmpkg_cache # NoneObj /\ GetNpmpkg) => ret'.out.val = npmpkg_cache
       /\ (npmpkg_cache = NoneObj /\ GetNpmpkg) =>
              /\ ret'.out.val = npmpkg_cache'
              /\ ret'.out.val.cls = "PNPMPackage" <=>
                     (PKGMGR \in DOMAIN config /\ config[PKGMGR] = "pnpm")
              /\ ret'.out.val.filepath =
                     IF BUILDDIR \in DOMAIN config THEN config[BUILDDIR]
                     ELSE join(instance_path, assets)]_vars

\* C9 witness: the instance still returns the base client, bound to the
\* fallback directory, after the configuration has changed to pnpm and to a
\* build-directory override.
C9_Witness ==
    /\ ret.op = "npmpkg"
    /\ ret.out.val = npmpkg_cache
    /\ npmpkg_cache # NoneObj
    /\ npmpkg_cache.cls = "NPMPackage"
    /\ npmpkg_cache.filepath = join(instance_path, assets)
    /\ PKGMGR \in DOMAIN config /\ config[PKGMGR] = "pnpm"
    /\ BUILDDIR \in DOMAIN config

----------------------------------------------------------------------------
(* _PathStorageMixin.run *)

Scripts == {"build", "start"}

\* run with the test turned round: every builder but webpack gets the suffix
run_unless_webpack(script_name, args) ==
    <<[script_name |-> IF get(BUILDER, "webpack") # "webpack"
                       THEN script_name \o "-rspack" ELSE script_name,
       args        |-> args]>>

\* run(script_name, *args): the calls it makes to the base class's run
run(script_name, args) ==
    <<[script_name |-> IF get(BUILDER, "webpack") = "rspack"
                       THEN script_name \o "-rspack" ELSE script_name,
       args        |-> args]>>

Run(script_name, args) ==
    /\ run_calls' = run(script_name, args)
    /\ ret' = [op |-> "run", script_name |-> script_name, args |-> args]
    /\ UNCHANGED <<appVars, npmVars, bundleVars>>

RunStep == \E script_name \in Scripts : \E args \in ArgLists :
               Run(script_name, args)

IsRun == ret'.op = "run" /\ Run(ret'.script_name, ret'.args)

RunKeySet == {BUILDER}

InitRun ==
    /\ config \in Configs(<<BUILDER>>)
    /\ instance_path = <<"/", "v">>
    /\ static_folder = <<"/", "w", "/">>
    /\ static_url_path = <<"/", "a">>
    /\ debug = FALSE
    /\ ret = NoCall
    /\ run_calls = <<>>
    /\ IdleNpm
    /\ IdleBundle

SetRunKey == SetKey(RunKeySet)
DelRunKey == DelKey(RunKeySet)

NextRun ==
    \/ RunStep
    \/ SetRunKey
    \/ DelRunKey

SpecRun == InitRun /\ [][NextRun]_vars

\* C2: run(s, *args) calls the base run exactly once, with s + "-rspack" when
\* the bundler-tool choice is "rspack" and with s itself when the choice is
\* absent or anything else, hands args on unchanged, and modifies neither the
\* host configuration nor the project object.
C2_RunSuffix ==
    [][IsRun =>
        /\ Len(run_calls') = 1
        /\ (BUILDER \in DOMAIN config /\ config[BUILDER] = "rspack") =>
               run_calls'[1].script_name = ret'.script_name \o "-rspack"
        /\ (BUILDER \notin DOMAIN config \/ config[BUILDER] # "rspack") =>
               run_calls'[1].script_name = ret'.script_name
        /\ run_calls'[1].args = ret'.args
        /\ config' = config
        /\ npmpkg_cache' = npmpkg_cache
        /\ self_app' = self_app /\ entry_cache' = entry_cache]_vars

\* C2 witness: run("build", "a", "b") under rspack went to the base run as
\* "build-rspack" with the same arguments.
C2_Witness ==
    /\ ret = [op |-> "run", script_name |-> "build", args |-> <<"a", "b">>]
    /\ BUILDER \in DOMAIN config /\ config[BUILDER] = "rspack"
    /\ run_calls = <<[script_name |-> "build-rspack", args |-> <<"a", "b">>]>>

----------------------------------------------------------------------------
(* WebpackBundleProject: construction and the memoized entry *)

Apps       == {"app1", "app2"}
\* flask.current_app, the proxy object itself
CurrentApp == "current_app"
AppRefs    == Apps \cup {CurrentApp}

\* optional arguments: None, or a value
NoArg   == [none |-> TRUE]
Arg(v)  == [none |-> FALSE, val |-> v]

\* truth value of an optional list argument and of an optional dict argument
bool_list(x) == ~x.none /\ x.val # <<>>
bool_dict(x) == ~x.none /\ x.val # {}

\* posixpath.join(get_root_path(import_name), project_folder)
RootPath      == <<"/", "r">>
ProjectFolder == <<"t">>

\* allowed_copy_paths or self.flask_allowed_copy_paths()
allowed_or_default(allowed_copy_paths) ==
    IF bool_list(allowed_copy_paths) THEN allowed_copy_paths.val
    ELSE flask_allowed_copy_paths

AllowedArgs == {NoArg} \cup {Arg(q) : q \in SeqsUpTo(Paths, 1)}
ConfigArgs  == {NoArg, Arg({}), Arg({<<"build", "custom">>})}
AppArgs     == {NoArg} \cup {Arg(a) : a \in Apps}

\* WebpackBundleProject.__init__ of project w
BundleInit(w, app, cfg, allowed_copy_paths) ==
    /\ self_app[w] = None
    /\ self_app' = [self_app EXCEPT ![w] = IF app.none THEN CurrentApp
                                          ELSE app.val]
    /\ init_call' = [
           working_dir          |-> None,
           project_template_dir |-> join(RootPath, ProjectFolder),
           bundles              |-> DOMAIN bundle_app,
           config               |-> IF bool_dict(cfg) THEN cfg.val
                                    ELSE {<<"callable", "flask_config">>},
           allowed_copy_paths   |-> allowed_or_default(allowed_copy_paths),
           given_allowed        |-> allowed_copy_paths]
    /\ UNCHANGED <<appVars, ret, npmVars, run_calls, bundle_app, entry_cache>>

BundleInitStep ==
    \E w \in Projects : \E app \in AppArgs : \E cfg \in ConfigArgs :
        \E allowed_copy_paths \in AllowedArgs :
            BundleInit(w, app, cfg, allowed_copy_paths)

InitInit ==
    /\ config \in Configs(DirKeys)
    /\ instance_path \in Paths
    /\ static_folder \in Paths
    /\ static_url_path = <<"/", "a">>
    /\ debug = FALSE
    /\ ret = NoCall
    /\ run_calls = <<>>
    /\ IdleNpm
    /\ IdleBundle

NextInit == BundleInitStep

SpecInit == InitInit /\ [][NextInit]_vars

\* C10: a bundle project hands every allow-list its caller supplies, the
\* empty one included, to the base project unchanged, and uses the four-path
\* default only when the caller supplies none.
C10_AllowListKept ==
    init_call # NoCall =>
        /\ ~init_call.given_allowed.none =>
               init_call.allowed_copy_paths = init_call.given_allowed.val
        /\ init_call.given_allowed.none =>
               init_call.allowed_copy_paths = flask_allowed_copy_paths


\* PyWebpackBundleProject.entry: computed from the bundles as they then are
base_entry(apps) == [cls |-> "dict", seen |-> apps]

\* entry with the base computation ahead of the assignment loop
entry_base_first(w) ==
    IF entry_cache[w] # NoneObj
    THEN [bundle_app |-> bundle_app, value |-> entry_cache[w]]
    ELSE [bundle_app |-> [i \in DOMAIN bundle_app |-> self_app[w]],
          value      |-> base_entry(bundle_app)]

\* the entry property of project w: the bundles' apps after the access and
\* the value returned
entry(w) ==
    IF entry_cache[w] # NoneObj
    THEN [bundle_app |-> bundle_app, value |-> entry_cache[w]]
    ELSE LET assigned == [i \in DOMAIN bundle_app |-> self_app[w]]
         IN  [bundle_app |-> assigned, value |-> base_entry(assigned)]

AccessEntry(w) ==
    /\ self_app[w] # None
    /\ bundle_app' = entry(w).bundle_app
    /\ entry_cache' = [entry_cache EXCEPT ![w] = entry(w).value]
    /\ ret' = [op |-> "entry", w |-> w, out |-> Ok(entry(w).value),
               computed |-> entry_cache[w] = NoneObj, before |-> bundle_app]
    /\ UNCHANGED <<appVars, npmVars, run_calls, self_app, init_call>>

AccessEntryStep == \E w \in Projects : AccessEntry(w)

IsEntry == ret'.op = "entry" /\ AccessEntry(ret'.w)

\* the bundle descriptors exist before any project does, and projects share
\* them
InitEntry ==
    /\ config = <<>>
    /\ instance_path = <<"/", "v">>
    /\ static_folder = <<"/", "w", "/">>
    /\ static_url_path = <<"/", "a">>
    /\ debug = FALSE
    /\ ret = NoCall
    /\ run_calls = <<>>
    /\ IdleNpm
    /\ self_app = [w \in Projects |-> None]
    /\ bundle_app \in SeqsUpTo(AppRefs \cup {None}, MaxBundles)
    /\ entry_cache = [w \in Projects |-> NoneObj]
    /\ init_call = NoCall

NextEntry ==
    \/ BundleInitStep
    \/ AccessEntryStep

SpecEntry == InitEntry /\ [][NextEntry]_vars

AllReference(apps, app) == \A i \in DOMAIN apps : apps[i] = app

\* C3 as stated: after any access of entry returns, every descriptor
\* references the application of the project accessed.
C3_AsStated ==
    [][IsEntry => AllReference(bundle_app', self_app[ret'.w])]_vars

\* C3 amended: an access of entry that computes the entry points (the first
\* on the project, the value being memoized) assigns the project's
\* application to all N descriptors before the base computation runs, so the
\* computation sees them assigned and they all reference the project's
\* application when the access returns; a later access returns the memoized
\* value and assigns nothing.
C3_EntryAssigns ==
    [][IsEntry =>
        /\ Len(bundle_app') = Len(bundle_app)
        /\ ret'.computed =>
               /\ AllReference(bundle_app', self_app[ret'.w])
               /\ ret'.out.val.seen = bundle_app'
        /\ ~ret'.computed =>
               /\ bundle_app' = bundle_app
               /\ ret'.out.val = entry_cache[ret'.w]]_vars

\* C3 witness: a computing access on a project with two descriptors, neither
\* of which referenced the project's application before.
C3_Witness ==
    /\ ret.op = "entry"
    /\ ret.computed
    /\ Len(ret.before) = 2
    /\ \A i \in 1..2 : ret.before[i] # self_app[ret.w]
    /\ ret.before[1] # ret.before[2]
    /\ AllReference(bundle_app, self_app[ret.w])
    /\ ret.out.val.seen = bundle_app

====
